---- MODULE Spec2Model ----
(***************************************************************************)
(* AppLogger (src/src/logger.ts): a winston logger whose error-level       *)
(* records are also written to a mail stream.  The mail stream keeps a     *)
(* per-signature cache {count, lastSent} and e-mails every configured      *)
(* recipient when the last e-mail for the signature is older than          *)
(* dailyErrorCacheTimeMs.  A setInterval timer clears the cache every 24   *)
(* hours.  sendEmail sends an administrative notice to every recipient.    *)
(*                                                                         *)
(* The event loop is single-threaded: every action below is one callback   *)
(* run to completion (a logging call, the interval timer, the settling of  *)
(* one sendMail promise).  Date.now() is the variable now; it never goes   *)
(* backwards and is advanced by Tick between callbacks.                    *)
(***************************************************************************)
EXTENDS Integers, Sequences, FiniteSets, TLC

VARIABLES
    config,                 \* the validated environment: config.EMAIL_TO
    options,                \* the AppLoggerOptions given to the constructor
    dailyErrorCacheTimeMs,  \* this.dailyErrorCacheTimeMs
    dailyErrorCache,        \* this.dailyErrorCache: signature -> entry
    now,                    \* the value Date.now() returns
    timerElapsed,           \* ms since the interval timer was armed or fired
    outbox,                 \* every mailTransporter.sendMail call made so far
    pending,                \* indices of outbox whose promise is not settled
    notices,                \* one state per sendEmail call
    consoleErrors,          \* number of console.error diagnostics written
    callbacks,              \* number of times write's callback() was invoked
    clears,                 \* number of times the interval timer has fired
    console,                \* the lines the Console transports have written
    thrown,                 \* number of exceptions thrown out of write
    writing,                \* the Writable's state.writing between callbacks
    buffered,               \* the chunks the Writable has buffered
    log                     \* history: one record per write of the mail stream

vars == <<config, options, dailyErrorCacheTimeMs, dailyErrorCache, now, timerElapsed,
          outbox, pending, notices, consoleErrors, callbacks, clears, console,
          thrown, writing, buffered, log>>

-----------------------------------------------------------------------------
(* Bounds of the model *)

MaxEvents == 3

MaxNotices == 1

MaxDispatches == 2

-----------------------------------------------------------------------------
(* Configuration and inputs *)

\* setInterval(..., 1000 * 60 * 60 * 24)
ClearIntervalMs == 1000 * 60 * 60 * 24

\* Values of config.EMAIL_TO: one recipient, two recipients
OneRecipient == <<"ops@example.com">>

TwoRecipients == <<"ops@example.com", "dev@example.com">>

\* options.name
AppName == "app"

\* options.dailyErrorCacheTimeMs: absent, negative, zero, one minute
OptionChoices ==
    { [given |-> FALSE, ms |-> 0],
      [given |-> TRUE, ms |-> -1],
      [given |-> TRUE, ms |-> 0],
      [given |-> TRUE, ms |-> 60000] }

\* Values of Date.now() at which callbacks run
ClockReadings == {0, 30000, 70000, 130000, ClearIntervalMs + 70000}

\* Messages the application logs at error level
AppMessages == {"disk full", "db down"}

\* Messages the application logs at info level
InfoMessages == {"started"}

\* A text that is not a JSON document
PlainText(text) == [json |-> FALSE, text |-> text]

\* Text written to the mail stream that is not a JSON document
UnparsableChunks == {PlainText("disk full")}

\* The events the process-wide handlers are registered for, lines 117-133
CrashKinds == {"uncaughtException", "unhandledRejection"}

\* Messages of errors that nothing catches
CrashMessages == {"disk full"}

\* The rejection reason of a failed sendMail, as `${error}` prints it
TransportError == "Error: connect ECONNREFUSED"

Min(a, b) == IF a < b THEN a ELSE b

-----------------------------------------------------------------------------
(* The constructor *)

\* lines 35-39
NormaliseCacheTime(opts) ==
    IF ~opts.given \/ opts.ms < 0 THEN 0 ELSE opts.ms

\* line 69: Math.round(ms / 1000 / 60), ms a non-negative integer
DailyErrorCacheTimeMinutes(ms) == (ms + 30000) \div 60000

\* The state after `new AppLogger(opts)` at time t with config.EMAIL_TO = recipients
Constructed(opts, recipients, t) ==
    /\ config = [EMAIL_TO |-> recipients]
    /\ options = opts
    /\ dailyErrorCacheTimeMs = NormaliseCacheTime(options)
    /\ dailyErrorCache = << >>
    /\ now = t
    /\ timerElapsed = 0
    /\ outbox = << >>
    /\ pending = {}
    /\ notices = << >>
    /\ consoleErrors = 0
    /\ callbacks = 0
    /\ clears = 0
    /\ console = << >>
    /\ thrown = 0
    /\ writing = FALSE
    /\ buffered = << >>
    /\ log = << >>

\* One recipient, constructed when the clock reads 0
Init == \E opts \in OptionChoices : Constructed(opts, OneRecipient, 0)

\* Two recipients, constructed when the clock reads 70000, with the option
\* absent (no batching) or one minute
InitMail ==
    \E opts \in {o \in OptionChoices : ~o.given \/ o.ms > 0} :
        Constructed(opts, TwoRecipients, 70000)

\* One recipient, constructed when the clock reads 70000, with the option
\* absent (no batching) or one minute
InitFacade ==
    \E opts \in {o \in OptionChoices : ~o.given \/ o.ms > 0} :
        Constructed(opts, OneRecipient, 70000)

-----------------------------------------------------------------------------
(* The write function of the mail stream, lines 72-105 *)

\* consoleFormat, lines 56-62: `[${timestamp}] ${level}: ${message}`
ConsoleLine(level, message, t) ==
    [timestamp |-> t, level |-> level, message |-> message]

\* mailFormat, lines 64-67: the JSON document winston writes to the stream
MailRecord(level, message, t) ==
    [json |-> TRUE, level |-> level, message |-> message, timestamp |-> t]

\* A non-negative integer in a template literal
Digit(d) == <<"0", "1", "2", "3", "4", "5", "6", "7", "8", "9">>[d + 1]

RECURSIVE NumberToString(_)
NumberToString(n) ==
    IF n < 10 THEN Digit(n) ELSE NumberToString(n \div 10) \o Digit(n % 10)

\* Mutant: the key also holds the record's timestamp
CacheKeyWithTimestamp(parsedMessage) ==
    parsedMessage.level \o ": " \o parsedMessage.message
        \o " @" \o NumberToString(parsedMessage.timestamp)

\* line 74
CacheKey(parsedMessage) == parsedMessage.level \o ": " \o parsedMessage.message

\* line 77
GetEntry(cache, cacheKey) ==
    IF cacheKey \in DOMAIN cache THEN cache[cacheKey] ELSE [count |-> 0, lastSent |-> 0]

\* Mutant: line 78 counts the event twice
IncrementTwice(cacheEntry) == [cacheEntry EXCEPT !.count = @ + 2]

\* Mutant: the count++ of line 78 is lost
IncrementDropped(cacheEntry) == cacheEntry

\* line 78
Increment(cacheEntry) == [cacheEntry EXCEPT !.count = @ + 1]

\* Mutant: line 81 with >= in place of >
ShouldSendAtBoundary(t, cacheEntry, windowMs) == t - cacheEntry.lastSent >= windowMs

\* line 81
ShouldSend(t, cacheEntry, windowMs) == t - cacheEntry.lastSent > windowMs

\* line 83
CountedSubject(name, count, minutes) ==
    name \o " Error (" \o NumberToString(count) \o " occurrences in past "
         \o NumberToString(minutes) \o " minutes)"

\* lines 82-84
EmailSubject(cacheEntry, windowMs) ==
    IF windowMs > 0
    THEN CountedSubject(AppName, cacheEntry.count, DailyErrorCacheTimeMinutes(windowMs))
    ELSE AppName \o " Error"

\* Mutant: the loop of line 86 stops after the first recipient
AlertMailsToFirstOnly(recipients, subject, message, ev) ==
    [i \in 1..1 |->
        [path |-> "alert", ref |-> ev, to |-> recipients[i],
         subject |-> subject, text |-> message]]

\* lines 86-95: one sendMail per recipient, each with its own .catch
AlertMails(recipients, subject, message, ev) ==
    [i \in 1..Len(recipients) |->
        [path |-> "alert", ref |-> ev, to |-> recipients[i],
         subject |-> subject, text |-> message]]

\* Mutant: line 98 sets lastSent to 0
ResetEntryAtEpoch(cacheEntry, t) == [count |-> 0, lastSent |-> 0]

\* Mutant: lines 97-98 run in a later callback, the entry is stored as
\* incremented
ResetEntryDeferred(cacheEntry, t) == cacheEntry

\* Mutant: line 97 is lost, count keeps its incremented value
ResetEntryKeepingCount(cacheEntry, t) ==
    [count |-> cacheEntry.count, lastSent |-> t]

\* Mutant: line 98 is lost, lastSent keeps its old value
ResetEntryKeepingLastSent(cacheEntry, t) ==
    [count |-> 0, lastSent |-> cacheEntry.lastSent]

\* lines 97-98
ResetEntry(cacheEntry, t) == [count |-> 0, lastSent |-> t]

\* Mutant: line 101 replaces the map by one holding this entry only
SetEntryAlone(cache, cacheKey, cacheEntry) == [k \in {cacheKey} |-> cacheEntry]

\* line 101
SetEntry(cache, cacheKey, cacheEntry) ==
    [k \in DOMAIN cache \cup {cacheKey} |->
        IF k = cacheKey THEN cacheEntry ELSE cache[k]]

\* Whether the write of this record would send (used only to bound the model)
WillSend(message) ==
    ShouldSend(now, Increment(GetEntry(dailyErrorCache, CacheKey(message))),
               dailyErrorCacheTimeMs)

\* The chunks of a sequence that are not JSON documents
Unparsable(chunks) == SelectSeq(chunks, LAMBDA chunk : ~chunk.json)

\* The model follows at most MaxEvents logging calls and writes to the stream
Budget(n) == Len(console) + thrown + Len(Unparsable(buffered)) + n <= MaxEvents

\* The model follows the callbacks that start before MaxDispatches rounds of
\* sendMail calls were made
RoomToDispatch == Len(outbox) < MaxDispatches * Len(config.EMAIL_TO)

\* Mutant: callback() is invoked from the sendMail promises, so a write that
\* sends does not complete in its own step
WriteAwaitingMail(message, unsettled) ==
    LET cacheKey == CacheKey(message)
        cacheEntry == Increment(GetEntry(dailyErrorCache, cacheKey))
        send == ShouldSend(now, cacheEntry, dailyErrorCacheTimeMs)
        mails == IF send
                 THEN AlertMails(config.EMAIL_TO,
                                 EmailSubject(cacheEntry, dailyErrorCacheTimeMs),
                                 message, Len(log) + 1)
                 ELSE << >>
        stored == IF send THEN ResetEntry(cacheEntry, now) ELSE cacheEntry
    IN  /\ outbox' = outbox \o mails
        /\ pending' = unsettled \cup (Len(outbox) + 1 .. Len(outbox) + Len(mails))
        /\ dailyErrorCache' = SetEntry(dailyErrorCache, cacheKey, stored)
        /\ callbacks' = IF send THEN callbacks ELSE callbacks + 1
        /\ log' = Append(log, [sig |-> cacheKey, t |-> now, sent |-> send,
                               count |-> cacheEntry.count, gen |-> clears,
                               level |-> message.level, message |-> message.message,
                               before |-> GetEntry(dailyErrorCache, cacheKey)])

\* The whole write, lines 72-105, for one record
Write(message, unsettled) ==
    LET cacheKey == CacheKey(message)
        cacheEntry == Increment(GetEntry(dailyErrorCache, cacheKey))
        send == ShouldSend(now, cacheEntry, dailyErrorCacheTimeMs)
        mails == IF send
                 THEN AlertMails(config.EMAIL_TO, EmailSubject(cacheEntry, dailyErrorCacheTimeMs),
                                 message, Len(log) + 1)
                 ELSE << >>
        stored == IF send THEN ResetEntry(cacheEntry, now) ELSE cacheEntry
    IN  /\ outbox' = outbox \o mails
        /\ pending' = unsettled \cup (Len(outbox) + 1 .. Len(outbox) + Len(mails))
        /\ dailyErrorCache' = SetEntry(dailyErrorCache, cacheKey, stored)
        /\ callbacks' = callbacks + 1
        /\ log' = Append(log, [sig |-> cacheKey, t |-> now, sent |-> send,
                               count |-> cacheEntry.count, gen |-> clears,
                               level |-> message.level, message |-> message.message,
                               before |-> GetEntry(dailyErrorCache, cacheKey)])

\* The state write reads and updates
WriteState(unsettled) ==
    [cache |-> dailyErrorCache, outbox |-> outbox, pending |-> unsettled,
     callbacks |-> callbacks, log |-> log]

\* The whole write, lines 72-105, as a function of the state it updates and of
\* the value t its Date.now() of line 76 returns: what Write does, for handlers
\* that make several writes in one callback
Written(st, message, t) ==
    LET cacheKey == CacheKey(message)
        cacheEntry == Increment(GetEntry(st.cache, cacheKey))
        send == ShouldSend(t, cacheEntry, dailyErrorCacheTimeMs)
        mails == IF send
                 THEN AlertMails(config.EMAIL_TO, EmailSubject(cacheEntry, dailyErrorCacheTimeMs),
                                 message, Len(st.log) + 1)
                 ELSE << >>
        stored == IF send THEN ResetEntry(cacheEntry, t) ELSE cacheEntry
    IN  [cache |-> SetEntry(st.cache, cacheKey, stored),
         outbox |-> st.outbox \o mails,
         pending |-> st.pending \cup (Len(st.outbox) + 1 .. Len(st.outbox) + Len(mails)),
         callbacks |-> st.callbacks + 1,
         log |-> Append(st.log, [sig |-> cacheKey, t |-> t, sent |-> send,
                                 count |-> cacheEntry.count, gen |-> clears,
                                 level |-> message.level, message |-> message.message,
                                 before |-> GetEntry(st.cache, cacheKey)])]

\* Written for each chunk of a sequence in turn, the i-th write reading
\* times[i] from the clock
RECURSIVE WrittenAll(_, _, _)
WrittenAll(st, chunks, times) ==
    IF chunks = << >>
    THEN st
    ELSE WrittenAll(Written(st, Head(chunks), Head(times)), Tail(chunks), Tail(times))

\* The values n successive calls of Date.now() in one callback can return: the
\* clock does not go backwards, and it can move between two calls
ReadingsDuring(n) ==
    {times \in [1..n -> {t \in ClockReadings : t >= now}] :
        \A i \in 1..(n - 1) : times[i] <= times[i + 1]}

\* stream.write(chunk) of the node:stream Writable of line 71: while an earlier
\* write has not invoked callback() (state.writing) the chunk is buffered and
\* the write function is not entered; otherwise the write function runs
StreamWrite(chunk, unsettled) ==
    IF writing
    THEN /\ buffered' = Append(buffered, chunk)
         /\ pending' = unsettled
         /\ UNCHANGED <<dailyErrorCache, outbox, callbacks, log>>
    ELSE /\ WillSend(chunk) => RoomToDispatch
         /\ Write(chunk, unsettled)
         /\ UNCHANGED buffered

-----------------------------------------------------------------------------
(* Actions *)

\* Time passes between two callbacks
Tick(t) ==
    /\ t > now
    /\ now' = t
    /\ timerElapsed' = Min(timerElapsed + (t - now), ClearIntervalMs)
    /\ UNCHANGED <<config, options, thrown, writing, buffered, dailyErrorCacheTimeMs, dailyErrorCache, outbox, pending,
                   notices, consoleErrors, callbacks, clears, log, console>>

\* Mutant: the timer callback leaves the map as it is
ClearCacheKeepingEntries ==
    /\ timerElapsed >= ClearIntervalMs
    /\ timerElapsed' = 0
    /\ clears' = clears + 1
    /\ UNCHANGED <<config, options, thrown, writing, buffered, dailyErrorCacheTimeMs, dailyErrorCache, now, outbox,
                   pending, notices, consoleErrors, callbacks, log, console>>

\* lines 42-44: the interval timer fires
ClearCache ==
    /\ timerElapsed >= ClearIntervalMs
    /\ dailyErrorCache' = << >>
    /\ timerElapsed' = 0
    /\ clears' = clears + 1
    /\ UNCHANGED <<config, options, thrown, writing, buffered, dailyErrorCacheTimeMs, now, outbox, pending, notices,
                   consoleErrors, callbacks, log,
                   console>>

\* this.logger.error(m): the Console transport prints the record and the
\* Stream transport (level 'error') writes it to the mail stream
LogError(m) ==
    /\ Budget(1)
    /\ console' = Append(console, ConsoleLine("error", m, now))
    /\ StreamWrite(MailRecord("error", m, now), pending)
    /\ UNCHANGED <<config, options, thrown, writing, dailyErrorCacheTimeMs, now, timerElapsed,
                   notices, consoleErrors, clears>>

\* winston's npm levels: a smaller number is more severe
LevelSeverity(level) ==
    CASE level = "error" -> 0
      [] level = "warn" -> 1
      [] level = "info" -> 2

\* Mutant: the mail transport created with level 'info'
ReachesMailStreamAtInfo(level) == LevelSeverity(level) <= LevelSeverity("info")

\* line 107: the mail transport has level 'error'
ReachesMailStream(level) == LevelSeverity(level) <= LevelSeverity("error")

\* this.logger.info(m): lines 111-116, the Console transport and, if the level
\* passes, the mail stream
LogInfo(m) ==
    /\ Budget(1)
    /\ console' = Append(console, ConsoleLine("info", m, now))
    /\ IF ReachesMailStream("info")
       THEN StreamWrite(MailRecord("info", m, now), pending)
       ELSE UNCHANGED <<dailyErrorCache, outbox, pending, callbacks, log, buffered>>
    /\ UNCHANGED <<config, options, thrown, writing, dailyErrorCacheTimeMs, now, timerElapsed,
                   notices, consoleErrors, clears>>

\* line 73: JSON.parse succeeds on a JSON document only
JsonParses(chunk) == chunk.json

\* lines 72-73: a chunk that is not JSON is written to the stream.  JSON.parse
\* throws and nothing after line 73 runs: callback() is never invoked, so the
\* Writable stays in state.writing and buffers every later chunk, this one's
\* successors included
WriteUnparsable(chunk) ==
    /\ ~JsonParses(chunk)
    /\ Budget(1)
    /\ IF writing
       THEN /\ buffered' = Append(buffered, chunk)
            /\ UNCHANGED <<thrown, writing>>
       ELSE /\ thrown' = thrown + 1
            /\ writing' = TRUE
            /\ UNCHANGED buffered
    /\ UNCHANGED <<config, options, dailyErrorCacheTimeMs, dailyErrorCache, now, timerElapsed,
                   outbox, pending, notices, consoleErrors, callbacks, clears, console, log>>

\* The message of the record winston's exception and rejection handlers log:
\* `${kind}: ${message}` followed by the stack
HandlerMessage(kind, err) == kind \o ": " \o err \o "\n    at main (app.js:1:1)"

\* The number of times winston writes the handler's record to the mail
\* stream: mailTransportInstance is one instance registered as a transport,
\* as an exception handler and as a rejection handler (lines 113-124); how
\* many of the three registrations deliver the record is winston's
HandlerDeliveries == {1, 2, 3}

\* The message of the record the process.on listener logs for an Error with
\* message err.  Line 128 passes error.message.  Line 132 passes the Error
\* itself: winston logs its message, or a record without message, which line
\* 74 prints as "undefined"
LoggedMessages(kind, err) ==
    IF kind = "uncaughtException" THEN {err} ELSE {err, "undefined"}

\* lines 117-133: an error nothing catches ('uncaughtException') or a rejection
\* nothing handles ('unhandledRejection').  Two listeners run in the same
\* callback: winston's handler of createLogger's exceptionHandlers /
\* rejectionHandlers (Console and the mail stream), then the process.on
\* listener, which calls this.logger.error.  Every write of the callback reads
\* the clock for itself (line 76)
Crash(kind, err) ==
    /\ Budget(2)
    /\ RoomToDispatch
    /\ \E deliveries \in HandlerDeliveries : \E text \in LoggedMessages(kind, err) :
       \E times \in ReadingsDuring(deliveries + 1) :
        LET last == deliveries + 1
            chunks == [i \in 1..last |->
                          IF i <= deliveries
                          THEN MailRecord("error", HandlerMessage(kind, err), times[i])
                          ELSE MailRecord("error", text, times[i])]
            final == WrittenAll(WriteState(pending), chunks, times)
        IN  /\ console' = console \o
                    <<ConsoleLine("error", HandlerMessage(kind, err), times[1]),
                      ConsoleLine("error", text, times[last])>>
            /\ now' = times[last]
            /\ timerElapsed' = Min(timerElapsed + (times[last] - now), ClearIntervalMs)
            /\ IF writing
               THEN /\ buffered' = buffered \o chunks
                    /\ UNCHANGED <<dailyErrorCache, outbox, pending, callbacks, log>>
               ELSE /\ dailyErrorCache' = final.cache
                    /\ outbox' = final.outbox
                    /\ pending' = final.pending
                    /\ callbacks' = final.callbacks
                    /\ log' = final.log
                    /\ UNCHANGED buffered
            /\ UNCHANGED <<config, options, thrown, writing, dailyErrorCacheTimeMs,
                           notices, consoleErrors, clears>>

\* lines 148-155: one sendMail per recipient, subject `${this.name} | ${subject}`
NoticeMails(recipients, subject, message, call) ==
    [i \in 1..Len(recipients) |->
        [path |-> "notice", ref |-> call, to |-> recipients[i],
         subject |-> AppName \o " | " \o subject, text |-> PlainText(message)]]

\* sendEmail(subject, message) up to its await, lines 136-155
SendEmail(subject, message) ==
    /\ Len(notices) < MaxNotices
    /\ RoomToDispatch
    /\ LET mails == NoticeMails(config.EMAIL_TO, subject, message, Len(notices) + 1)
       IN  /\ outbox' = outbox \o mails
           /\ pending' = pending \cup (Len(outbox) + 1 .. Len(outbox) + Len(mails))
    /\ notices' = Append(notices, "awaiting")
    /\ UNCHANGED <<config, options, thrown, writing, buffered, dailyErrorCacheTimeMs, dailyErrorCache,
                   now, timerElapsed,
                   consoleErrors, callbacks, clears, log, console>>

\* The other sendMail promises of the same sendEmail call that are not settled
OthersPending(i) ==
    {j \in pending \ {i} : outbox[j].path = "notice" /\ outbox[j].ref = outbox[i].ref}

\* A sendMail promise resolves
MailResolve(i) ==
    /\ i \in pending
    /\ pending' = pending \ {i}
    /\ notices' = IF /\ outbox[i].path = "notice"
                     /\ notices[outbox[i].ref] = "awaiting"
                     /\ OthersPending(i) = {}
                  THEN [notices EXCEPT ![outbox[i].ref] = "resolved"]
                  ELSE notices
    /\ UNCHANGED <<config, options, thrown, writing, buffered, dailyErrorCacheTimeMs, dailyErrorCache,
                   now, timerElapsed,
                   outbox, consoleErrors, callbacks, clears, log, console>>

\* lines 92-94: a sendMail promise of the alert path rejects
AlertMailReject(i) ==
    /\ i \in pending
    /\ outbox[i].path = "alert"
    /\ pending' = pending \ {i}
    /\ consoleErrors' = consoleErrors + 1
    /\ UNCHANGED <<config, options, thrown, writing, buffered, dailyErrorCacheTimeMs, dailyErrorCache,
                   now, timerElapsed,
                   outbox, notices, callbacks, clears, log, console>>

\* line 157: the message sendEmail's catch block logs
FailureMessage(error) == "Failed to send warning email: " \o error

\* lines 156-158: a sendMail promise of sendEmail rejects; the first rejection
\* rejects Promise.all and the catch block calls this.logger.error
NoticeMailReject(i) ==
    /\ i \in pending
    /\ outbox[i].path = "notice"
    /\ IF notices[outbox[i].ref] = "awaiting"
       THEN /\ Budget(1)
            /\ console' = Append(console,
                                 ConsoleLine("error", FailureMessage(TransportError), now))
            /\ notices' = [notices EXCEPT ![outbox[i].ref] = "caught"]
            /\ StreamWrite(MailRecord("error", FailureMessage(TransportError), now),
                           pending \ {i})
       ELSE /\ pending' = pending \ {i}
            /\ UNCHANGED <<notices, dailyErrorCache, outbox, callbacks, log, console, buffered>>
    /\ UNCHANGED <<config, options, thrown, writing, dailyErrorCacheTimeMs, now, timerElapsed,
                   consoleErrors, clears>>

\* What happens around an application that logs at error level only and
\* catches its errors: clock, timer, error-level logging calls, sendEmail, mail
\* outcomes
NextErrors ==
    \/ \E t \in ClockReadings : Tick(t)
    \/ ClearCache
    \/ \E m \in AppMessages : LogError(m)
    \/ SendEmail("warning", "low balance")
    \/ \E i \in 1..Len(outbox) : MailResolve(i)
    \/ \E i \in 1..Len(outbox) : AlertMailReject(i)
    \/ \E i \in 1..Len(outbox) : NoticeMailReject(i)

\* The same, and logging calls below error level and text written to the mail
\* stream that is not JSON
NextFacade ==
    \/ NextErrors
    \/ \E m \in InfoMessages : LogInfo(m)
    \/ \E chunk \in UnparsableChunks : WriteUnparsable(chunk)

\* An application that logs at error level only, does not catch all its
\* errors and never calls sendEmail, and text written to the mail stream that
\* is not JSON.  Every e-mail is an alert e-mail, whose sendMail promise
\* resolves or rejects
NextCrash ==
    \/ \E t \in ClockReadings : Tick(t)
    \/ ClearCache
    \/ \E m \in AppMessages : LogError(m)
    \/ \E kind \in CrashKinds : \E err \in CrashMessages : Crash(kind, err)
    \/ \E chunk \in UnparsableChunks : WriteUnparsable(chunk)
    \/ \E i \in 1..Len(outbox) : MailResolve(i)
    \/ \E i \in 1..Len(outbox) : AlertMailReject(i)

\* Every action
Next == NextErrors \/ NextFacade \/ NextCrash

\* One recipient, clock from 0: the cache and its timing over the whole range
\* of clock readings
Spec == Init /\ [][NextErrors]_vars

\* Two recipients, clock from 70000: the dispatch to several recipients and the
\* settling of their sendMail promises
SpecMail == InitMail /\ [][NextErrors]_vars

\* One recipient, clock from 70000: logging calls of every level and writes of
\* every kind of text
SpecFacade == InitFacade /\ [][NextFacade]_vars

\* One recipient, clock from 70000: errors that nothing catches, before and
\* after the stream has stopped writing
SpecCrash == InitFacade /\ [][NextCrash]_vars

-----------------------------------------------------------------------------
(* Reading the history *)

Max(S) == CHOOSE x \in S : \A y \in S : y <= x

Events == 1..Len(log)

\* Events i and j concern the same signature with no cache clear between them
SameEntry(i, j) == log[i].sig = log[j].sig /\ log[i].gen = log[j].gen

\* The send decisions before event i for its signature since the last clear
PrevSends(i) == {j \in 1..(i - 1) : SameEntry(i, j) /\ log[j].sent}

LastSendIndex(i) == IF PrevSends(i) = {} THEN 0 ELSE Max(PrevSends(i))

\* What the history says lastSent is when event i is processed
LastSentBefore(i) == IF PrevSends(i) = {} THEN 0 ELSE log[LastSendIndex(i)].t

\* Events of i's signature since its previous send (or since the entry was
\* created), event i included
OccurrencesSince(i) ==
    Cardinality({j \in (LastSendIndex(i) + 1)..i : SameEntry(i, j)})

\* The sendMail calls made while processing event i
MailsOf(i) == {k \in 1..Len(outbox) : outbox[k].path = "alert" /\ outbox[k].ref = i}

\* Event i is the first of its signature since the cache was last cleared
FirstSinceClear(i) == \A j \in 1..(i - 1) : ~SameEntry(i, j)

-----------------------------------------------------------------------------
(* C1 *)

\* C1 as stated: with a window > 0, any two send decisions for the same
\* signature are more than dailyErrorCacheTimeMs apart.
C1_SendsOfASignatureAreAWindowApart ==
    dailyErrorCacheTimeMs > 0 =>
        \A i, j \in Events :
            (i < j /\ log[i].sig = log[j].sig /\ log[i].sent /\ log[j].sent)
                => log[j].t - log[i].t > dailyErrorCacheTimeMs

\* C1 amended: with a window > 0, any two send decisions for the same signature
\* with no cache clear between them are more than dailyErrorCacheTimeMs apart.
C1_SendsBetweenClearsAreAWindowApart ==
    dailyErrorCacheTimeMs > 0 =>
        \A i, j \in Events :
            (i < j /\ SameEntry(i, j) /\ log[i].sent /\ log[j].sent)
                => log[j].t - log[i].t > dailyErrorCacheTimeMs

\* Two e-mails for one signature with no clear between them, and an event
\* of the signature absorbed between the two
C1_Witness ==
    /\ dailyErrorCacheTimeMs > 0
    /\ \E i, j \in Events :
        /\ i < j /\ SameEntry(i, j) /\ log[i].sent /\ log[j].sent
        /\ \E k \in (i + 1)..(j - 1) : SameEntry(i, k) /\ ~log[k].sent

-----------------------------------------------------------------------------
(* C2 *)

\* The events of signature s processed so far
EventsOf(s) == {i \in Events : log[i].sig = s}

\* C2 as stated, for batches whose events all arrive later than one window
\* after the epoch: when all events of a signature arrive within a span shorter
\* than the window, exactly one e-mail is sent for them and it reports as many
\* occurrences as the batch has events.
C2_OneEmailReportsTheBatchSize ==
    \A i \in Events :
        LET batch == EventsOf(log[i].sig)
            sends == {j \in batch : log[j].sent}
        IN  (/\ dailyErrorCacheTimeMs > 0
             /\ \A j \in batch : log[j].t > dailyErrorCacheTimeMs
             /\ \A j, k \in batch : log[k].t - log[j].t < dailyErrorCacheTimeMs)
            => /\ Cardinality(sends) = 1
               /\ \A j \in sends : log[j].count = Cardinality(batch)

\* C2 amended: among events of one signature that arrive within a span shorter
\* than the window with no cache clear between them at most one sends an
\* e-mail, and the subject of every e-mail reports the number of events of the
\* signature processed since its previous e-mail (or since the entry was
\* created), the triggering event included.
C2_AtMostOneEmailPerSpanReportingOccurrencesSince ==
    dailyErrorCacheTimeMs > 0 =>
        /\ \A i, j \in Events :
              (/\ i < j /\ SameEntry(i, j)
               /\ log[j].t - log[i].t < dailyErrorCacheTimeMs)
                  => ~(log[i].sent /\ log[j].sent)
        /\ \A i \in Events : \A k \in MailsOf(i) :
              outbox[k].subject =
                  CountedSubject(AppName, OccurrencesSince(i),
                                 DailyErrorCacheTimeMinutes(dailyErrorCacheTimeMs))

\* A batch of two events in the same millisecond: the first sends and reports
\* 1 occurrence, the second is absorbed; a later e-mail reports 2
C2_Witness ==
    /\ dailyErrorCacheTimeMs > 0
    /\ \E i, j, l \in Events :
        /\ i < j /\ j < l /\ SameEntry(i, j) /\ SameEntry(j, l)
        /\ log[i].t = log[j].t
        /\ log[i].sent /\ ~log[j].sent /\ log[l].sent
        /\ \E k \in MailsOf(l) :
              outbox[k].subject = "app Error (2 occurrences in past 1 minutes)"

-----------------------------------------------------------------------------
(* C3 *)

\* C3: the first occurrence of a signature that has no cache entry sends an
\* e-mail immediately, and that e-mail reports 1 occurrence.
C3_FirstOccurrenceSends ==
    \A i \in Events :
        FirstSinceClear(i) =>
            /\ log[i].sent
            /\ log[i].count = 1
            /\ MailsOf(i) # {}

-----------------------------------------------------------------------------
(* C4 *)

\* C4: an e-mail reports the number of events of its signature processed since
\* the previous send, the triggering event included; with window 60000 and
\* events at t = 0, 30000, 70000 the e-mail at 70000 reports 2 occurrences and
\* the event at 30000 sends nothing.
C4_EmailReportsOccurrencesSinceLastSend ==
    /\ dailyErrorCacheTimeMs > 0 =>
          \A i \in Events : \A k \in MailsOf(i) :
              outbox[k].subject =
                  CountedSubject(AppName, OccurrencesSince(i),
                                 DailyErrorCacheTimeMinutes(dailyErrorCacheTimeMs))
    /\ (/\ dailyErrorCacheTimeMs = 60000
        /\ Len(log) = 3
        /\ \A i \in Events : log[i].sig = "error: disk full"
        /\ log[1].t = 0 /\ log[2].t = 30000 /\ log[3].t = 70000)
       => /\ ~log[2].sent
          /\ log[3].sent
          /\ \A k \in MailsOf(3) :
                outbox[k].subject = "app Error (2 occurrences in past 1 minutes)"

-----------------------------------------------------------------------------
(* C5 *)

\* C5: an event sends exactly when now - lastSent of its signature's entry is
\* strictly greater than the window; at now - lastSent = window it does not.
C5_SendsIffElapsedExceedsWindow ==
    \A i \in Events :
        /\ log[i].sent <=> (log[i].t - LastSentBefore(i) > dailyErrorCacheTimeMs)
        /\ log[i].sent <=> (MailsOf(i) # {})

\* An event exactly one window after the previous e-mail is absorbed
C5_Witness ==
    /\ dailyErrorCacheTimeMs > 0
    /\ \E i \in Events :
        /\ PrevSends(i) # {}
        /\ log[i].t - LastSentBefore(i) = dailyErrorCacheTimeMs
        /\ ~log[i].sent

-----------------------------------------------------------------------------
(* C6 *)

\* C6: with window 0 (also when the option is absent or negative) every event
\* later than the previous send for its signature sends its own e-mail; the
\* only event that does not send is one in the same millisecond as the
\* previous send for its signature.
C6_ZeroWindowSendsUnlessSameMillisecond ==
    (~options.given \/ options.ms <= 0) =>
        /\ dailyErrorCacheTimeMs = 0
        /\ \A i \in Events :
              ~log[i].sent =>
                  \E j \in 1..(i - 1) :
                      /\ log[j].sig = log[i].sig /\ log[j].sent
                      /\ log[j].t = log[i].t

-----------------------------------------------------------------------------
(* C7 *)

\* The latest event, when it is the first of its signature after a clear, the
\* signature was seen before that clear, and no clear has fired since
AfterClear(i) ==
    /\ i = Len(log)
    /\ log[i].gen = clears
    /\ FirstSinceClear(i)
    /\ \E j \in 1..(i - 1) : log[j].sig = log[i].sig /\ log[j].gen < log[i].gen

\* C7 as stated: after the clear the next occurrence of a signature seen before
\* sends an e-mail immediately, however recent the last e-mail, and the entry's
\* count is 1 after that send.
C7_AfterClearSendsAndCountIsOne ==
    \A i \in Events :
        AfterClear(i) =>
            /\ log[i].sent
            /\ dailyErrorCache[log[i].sig].count = 1

\* C7 amended: after the clear the next occurrence of a signature seen before
\* is decided as a first-ever occurrence (against lastSent = 0, so it sends
\* when now > window) however recent the last e-mail; that e-mail reports 1
\* occurrence and the entry holds count 0 and lastSent = now after the send.
C7_AfterClearDecidedAsFirstEver ==
    \A i \in Events :
        AfterClear(i) =>
            /\ log[i].sent <=> (log[i].t > dailyErrorCacheTimeMs)
            /\ log[i].sent =>
                  /\ log[i].count = 1
                  /\ dailyErrorCache[log[i].sig] = [count |-> 0, lastSent |-> log[i].t]
                  /\ \A k \in MailsOf(i) :
                        outbox[k].subject = EmailSubject([count |-> 1, lastSent |-> 0],
                                                         dailyErrorCacheTimeMs)

\* An e-mail, then the clear, then an e-mail for the same signature in the same
\* millisecond as the first
C7_Witness ==
    \E i \in Events :
        /\ AfterClear(i)
        /\ log[i].sent
        /\ dailyErrorCacheTimeMs > 0
        /\ \E j \in 1..(i - 1) :
              /\ log[j].sig = log[i].sig /\ log[j].sent
              /\ log[i].t - log[j].t < dailyErrorCacheTimeMs

-----------------------------------------------------------------------------
(* C8 *)

\* C8: every send decision makes exactly one sendMail call per configured
\* recipient, all with the same subject and body, whatever happens to the
\* calls for the other recipients; an absorbed event makes none.
C8_OneAttemptPerRecipient ==
    \A i \in Events :
        IF log[i].sent
        THEN /\ \A r \in 1..Len(config.EMAIL_TO) :
                  Cardinality({k \in MailsOf(i) : outbox[k].to = config.EMAIL_TO[r]}) = 1
             /\ Cardinality(MailsOf(i)) = Len(config.EMAIL_TO)
             /\ \A k, l \in MailsOf(i) :
                  outbox[k].subject = outbox[l].subject /\ outbox[k].text = outbox[l].text
        ELSE MailsOf(i) = {}

\* One send decision, the call for the first recipient has failed and the call
\* for the second recipient was made and is still pending
C8_Witness ==
    /\ Len(config.EMAIL_TO) = 2
    /\ Len(log) = 1 /\ log[1].sent
    /\ consoleErrors = 1
    /\ \E k \in MailsOf(1) : k \in pending /\ outbox[k].to = config.EMAIL_TO[2]
    /\ \E k \in MailsOf(1) : k \notin pending /\ outbox[k].to = config.EMAIL_TO[1]

-----------------------------------------------------------------------------
(* C9 *)

\* C9: a failed sendMail, on the alert path or in sendEmail, is only written
\* to the console: it makes no further sendMail call (no retry, no alert about
\* the failure) and leaves the cache as it is.
C9_FailedSendOnlyDiagnosed ==
    [][(\E i \in 1..Len(outbox) : AlertMailReject(i) \/ NoticeMailReject(i))
          => /\ dailyErrorCache' = dailyErrorCache
             /\ outbox' = outbox
             /\ log' = log]_vars

-----------------------------------------------------------------------------
(* C10 *)

\* C10: every write has invoked its callback and stored its cache entry by the
\* end of the step that took the send decision, whatever the state of the
\* sendMail promises; mails dispatched by an event do not hold back later events.
C10_WriteCompletesWithoutAwaitingMail ==
    /\ callbacks = Len(log)
    /\ \A i \in Events : log[i].gen = clears => log[i].sig \in DOMAIN dailyErrorCache
    /\ \A k \in pending : outbox[k].path = "alert" => outbox[k].ref \in Events

\* A second event was processed, and its callback invoked, while the sends of
\* the first were all still pending; one send of the first has since failed
C10_Witness ==
    /\ Len(log) >= 2 /\ callbacks = Len(log)
    /\ log[1].sent
    /\ log[2].sig = log[1].sig
    /\ \E k \in MailsOf(1) : k \in pending
    /\ consoleErrors >= 1

-----------------------------------------------------------------------------
(* C11 *)

\* The sendMail calls made by the k-th sendEmail call
NoticeMailsOf(k) ==
    {j \in 1..Len(outbox) : outbox[j].path = "notice" /\ outbox[j].ref = k}

\* C11: sendEmail bypasses the cache: every call makes one sendMail call per
\* configured recipient with the subject prefixed by the application name,
\* whatever the cache holds, and no step of sendEmail (the call, the settling
\* of its sendMail promises, its catch block) reads or modifies a cache entry
\* or passes an event to the mail stream.
C11_SendEmailLeavesTheCacheAlone ==
    [][/\ SendEmail("warning", "low balance") =>
            LET made == {j \in 1..Len(outbox') :
                            /\ outbox'[j].path = "notice"
                            /\ outbox'[j].ref = Len(notices')}
            IN  /\ \A r \in 1..Len(config.EMAIL_TO) :
                      Cardinality({j \in made : outbox'[j].to = config.EMAIL_TO[r]}) = 1
                /\ \A j \in made : outbox'[j].subject = AppName \o " | " \o "warning"
       /\ (\/ SendEmail("warning", "low balance")
           \/ \E i \in 1..Len(outbox) :
                  outbox[i].path = "notice" /\ (MailResolve(i) \/ NoticeMailReject(i)))
            => dailyErrorCache' = dailyErrorCache /\ log' = log]_vars

-----------------------------------------------------------------------------
(* C12 *)

\* Console line j is the line of the record of event i, printed when the
\* record was written to the stream or, for a record written several times,
\* when it was first written
LineOf(j, i) ==
    /\ console[j].level = log[i].level
    /\ console[j].message = log[i].message
    /\ console[j].timestamp <= log[i].t

\* C12: only error-level events reach the mail stream: every record the stream
\* has processed, every cache entry and every alert e-mail belongs to an
\* error-level event, so an info event creates or modifies no cache entry and
\* causes no e-mail; and every event is on the console, whether its e-mail was
\* sent or absorbed: every record the stream has processed has its console
\* line, and every console line without a processed record is an info line or
\* a line of a stream that has stopped writing.
C12_OnlyErrorsReachTheMailStream ==
    /\ \A i \in Events : log[i].level = "error"
    /\ \A k \in DOMAIN dailyErrorCache :
          \E i \in Events : log[i].sig = k /\ log[i].level = "error"
    /\ \A m \in InfoMessages :
          CacheKey(MailRecord("info", m, now)) \notin DOMAIN dailyErrorCache
    /\ \A k \in 1..Len(outbox) :
          outbox[k].path = "alert" =>
              outbox[k].ref \in Events /\ outbox[k].text.level = "error"
    /\ \A i \in Events : \E j \in 1..Len(console) : LineOf(j, i)
    /\ \A j \in 1..Len(console) :
          \/ \E i \in Events : LineOf(j, i)
          \/ console[j].level = "info"
          \/ writing

\* An info event between two error events of one signature: the info line is
\* on the console, the stream has processed the two error events only, and
\* the second, absorbed, is on the console too
C12_Witness ==
    /\ Len(console) = 3 /\ console[2].level = "info"
    /\ Len(log) = 2 /\ log[1].sig = log[2].sig
    /\ log[1].sent /\ ~log[2].sent
    /\ console[3] = ConsoleLine("error", log[2].message, log[2].t)
    /\ dailyErrorCache[log[2].sig].count = 1

-----------------------------------------------------------------------------
(* C13 *)

\* The level and message text of the events processed since the last clear
TextsSinceClear == {<<log[i].level, log[i].message>> : i \in {j \in Events : log[j].gen = clears}}

\* C13: two events have the same signature exactly when their level and their
\* message text are the same, whatever their timestamps; events with the same
\* level and message text share one cache entry.
C13_SignatureIsLevelAndMessage ==
    /\ \A i, j \in Events :
          (log[i].level = log[j].level /\ log[i].message = log[j].message)
              <=> log[i].sig = log[j].sig
    /\ Cardinality(DOMAIN dailyErrorCache) = Cardinality(TextsSinceClear)

\* Two events with the same text at different times, the second absorbed under
\* the rate limit of the first, and an event with another text between them
C13_Witness ==
    \E i, j, k \in Events :
        /\ i < k /\ k < j
        /\ log[i].message = log[j].message /\ log[i].t < log[j].t
        /\ log[i].sig = log[j].sig
        /\ log[i].sent /\ ~log[j].sent /\ log[j].count = 1
        /\ log[k].message # log[i].message /\ log[k].sig # log[i].sig
        /\ Cardinality(DOMAIN dailyErrorCache) = 2

-----------------------------------------------------------------------------
(* C14 *)

\* C14: a record that cannot be parsed into level and message does not make
\* write raise: every write to the mail stream, whatever its text, runs to its
\* callback, and the stream goes on writing.
C14_MalformedRecordDoesNotRaise ==
    /\ thrown = 0
    /\ callbacks = Len(log) + thrown
    /\ ~writing
    /\ buffered = << >>

-----------------------------------------------------------------------------
(* C15 *)

\* The signatures whose cache entry a step creates or changes
EntriesTouched ==
    {k \in DOMAIN dailyErrorCache' :
        k \notin DOMAIN dailyErrorCache \/ dailyErrorCache'[k] # dailyErrorCache[k]}

\* C15: an uncaught exception or unhandled rejection becomes exactly one
\* error-level event of the mail stream: one record processed, one cache entry
\* updated, at most one batch of e-mails.
C15_CrashIsOneErrorEvent ==
    [][(\E kind \in CrashKinds : \E err \in CrashMessages : Crash(kind, err))
          => /\ Len(log') = Len(log) + 1
             /\ log'[Len(log')].level = "error"
             /\ Cardinality(EntriesTouched) = 1
             /\ Len(outbox') - Len(outbox) <= Len(config.EMAIL_TO)]_vars

-----------------------------------------------------------------------------
(* C16 *)

\* The events of event i's signature after i, with no clear since i
LaterSameEntry(i) == {j \in (i + 1)..Len(log) : SameEntry(i, j)}

\* The entry the claim says event i leaves, from the entry it found
EntryAfter(i) ==
    IF log[i].sent
    THEN [count |-> 0, lastSent |-> log[i].t]
    ELSE [count |-> log[i].before.count + 1, lastSent |-> log[i].before.lastSent]

\* C16: an event that sends leaves its signature's entry with count = 0 and
\* lastSent = now; an event that does not send leaves it with count one more
\* than it found, lastSent as it found it, and makes no sendMail call.  The
\* entry an event leaves is the one the next event of the signature finds, and
\* the one the cache holds while no later event or clear has touched it.
C16_EntryAfterOneEvent ==
    \A i \in Events :
        /\ ~log[i].sent => MailsOf(i) = {}
        /\ FirstSinceClear(i) => log[i].before = [count |-> 0, lastSent |-> 0]
        /\ IF LaterSameEntry(i) # {}
           THEN log[CHOOSE j \in LaterSameEntry(i) :
                        \A l \in LaterSameEntry(i) : j <= l].before = EntryAfter(i)
           ELSE log[i].gen = clears => dailyErrorCache[log[i].sig] = EntryAfter(i)

\* An entry after an event that sent (count 0, lastSent its time) and two that
\* did not (count 2, lastSent as before)
C16_Witness ==
    \E i, j, l \in Events :
        /\ i < j /\ j < l /\ SameEntry(i, j) /\ SameEntry(j, l)
        /\ log[i].sent /\ ~log[j].sent /\ ~log[l].sent
        /\ log[i].t > 0 /\ log[l].t > log[i].t
        /\ log[j].before = [count |-> 0, lastSent |-> log[i].t]
        /\ LaterSameEntry(l) = {} /\ log[l].gen = clears
        /\ dailyErrorCache[log[l].sig] = [count |-> 2, lastSent |-> log[i].t]
        /\ MailsOf(j) = {} /\ MailsOf(l) = {}

-----------------------------------------------------------------------------
(* C17 *)

\* The latest event of signature k since the last clear (0 if there is none)
LatestOf(k) ==
    LET es == {i \in Events : log[i].sig = k /\ log[i].gen = clears}
    IN  IF es = {} THEN 0 ELSE Max(es)

-----------------------------------------------------------------------------
(* C18 *)

\* The events of signature k that sent since the last clear
SendsSinceClear(k) ==
    {i \in Events : log[i].sig = k /\ log[i].gen = clears /\ log[i].sent}

\* C18: in every state every cache entry has count >= 0; its lastSent is 0
\* exactly when no e-mail was dispatched for its signature since the last
\* clear, and otherwise is the time of the most recent dispatch for it.
C18_EntryInvariant ==
    \A k \in DOMAIN dailyErrorCache :
        LET entry == dailyErrorCache[k]
            sends == SendsSinceClear(k)
        IN  /\ entry.count >= 0
            /\ entry.lastSent = 0 <=> sends = {}
            /\ sends # {} =>
                  /\ entry.lastSent = log[Max(sends)].t
                  /\ MailsOf(Max(sends)) # {}

\* One entry never sent (count 1, lastSent 0) beside one sent twice, whose
\* lastSent is the time of the second dispatch
C18_Witness ==
    \E a, b \in DOMAIN dailyErrorCache :
        /\ a # b
        /\ dailyErrorCache[a] = [count |-> 1, lastSent |-> 0]
        /\ SendsSinceClear(a) = {}
        /\ Cardinality(SendsSinceClear(b)) = 2
        /\ \E i, j \in SendsSinceClear(b) :
              /\ log[i].t < log[j].t
              /\ dailyErrorCache[b] = [count |-> 0, lastSent |-> log[j].t]

-----------------------------------------------------------------------------
(* C19 *)

\* The events of signature k processed between clear number g and the next
EventsIn(k, g) == {i \in Events : log[i].sig = k /\ log[i].gen = g}

\* The sum of the counts the events of S had reached when they were processed
RECURSIVE SumOfCounts(_)
SumOfCounts(S) ==
    IF S = {} THEN 0
    ELSE LET i == CHOOSE x \in S : TRUE
         IN  log[i].count + SumOfCounts(S \ {i})

\* The count held for signature k at the end of period g: the stored count
\* in the current period; in a past period the events after its last send,
\* which the clear discarded
HeldAtEnd(k, g) ==
    IF g = clears
    THEN dailyErrorCache[k].count
    ELSE LET sends == {i \in EventsIn(k, g) : log[i].sent}
         IN  Cardinality({i \in EventsIn(k, g) : sends # {} => i > Max(sends)})

\* C19 as stated: for every signature and every period between two clears, the
\* counts of the e-mails sent for it and the count held at the end of the
\* period add up to the number of events processed for it in the period; and
\* no e-mail at all is sent other than by the write of an error event.
C19_NoEmailOutsideAnErrorEvent ==
    /\ \A i \in Events : \A g \in 0..clears :
          LET k == log[i].sig
              es == EventsIn(k, g)
          IN  es # {} =>
                SumOfCounts({j \in es : log[j].sent}) + HeldAtEnd(k, g) = Cardinality(es)
    /\ \A m \in 1..Len(outbox) :
          /\ outbox[m].path = "alert"
          /\ outbox[m].ref \in Events
          /\ log[outbox[m].ref].sent

\* C19 amended: for every signature and every period between two clears, the
\* counts of the alert e-mails sent for it (the count of the entry when the
\* e-mail was sent, which the subject states when the window is > 0) and the
\* count held at the end of the period add up to the number of events
\* processed for it in the period; every alert e-mail was sent by the write of
\* an event that decided to send.  The notices of sendEmail are e-mails sent
\* outside any error event and count no occurrence.
C19_OccurrencesAreConserved ==
    /\ \A i \in Events : \A g \in 0..clears :
          LET k == log[i].sig
              es == EventsIn(k, g)
          IN  es # {} =>
                SumOfCounts({j \in es : log[j].sent}) + HeldAtEnd(k, g) = Cardinality(es)
    /\ \A m \in 1..Len(outbox) :
          IF outbox[m].path = "alert"
          THEN /\ outbox[m].ref \in Events
               /\ log[outbox[m].ref].sent
               /\ dailyErrorCacheTimeMs > 0 =>
                     outbox[m].subject =
                         CountedSubject(AppName, log[outbox[m].ref].count,
                                        DailyErrorCacheTimeMinutes(dailyErrorCacheTimeMs))
          ELSE /\ outbox[m].path = "notice"
               /\ outbox[m].ref \in 1..Len(notices)
               /\ outbox[m].subject = AppName \o " | " \o "warning"

\* Three events of one signature in one period, the first two absorbed: one
\* alert e-mail for 3 occurrences, nothing held; a notice of sendEmail was
\* sent beside it
C19_Witness ==
    /\ dailyErrorCacheTimeMs > 0
    /\ \E m \in 1..Len(outbox) : outbox[m].path = "notice"
    /\ \E k \in DOMAIN dailyErrorCache :
          /\ Cardinality(EventsIn(k, clears)) = 3
          /\ \E m \in 1..Len(outbox) :
                /\ outbox[m].path = "alert"
                /\ log[outbox[m].ref].sig = k
                /\ log[outbox[m].ref].count = 3
          /\ SumOfCounts({j \in EventsIn(k, clears) : log[j].sent}) = 3
          /\ dailyErrorCache[k].count = 0

-----------------------------------------------------------------------------
(* C20 *)

\* The events of signature k from the i-th on are decided, and counted, as
\* lines 77-98 decide them when given the events of k alone: entry is the
\* entry k has after its events before i, g the period of the last of them
RECURSIVE DecidedAlone(_, _, _, _)
DecidedAlone(k, i, entry, g) ==
    IF i > Len(log)
    THEN IF g = clears
         THEN k \in DOMAIN dailyErrorCache /\ dailyErrorCache[k] = entry
         ELSE k \notin DOMAIN dailyErrorCache
    ELSE IF log[i].sig # k
         THEN DecidedAlone(k, i + 1, entry, g)
         ELSE LET found == IF log[i].gen = g THEN entry ELSE [count |-> 0, lastSent |-> 0]
                  cacheEntry == Increment(found)
                  send == ShouldSend(log[i].t, cacheEntry, dailyErrorCacheTimeMs)
              IN  /\ log[i].sent = send
                  /\ log[i].count = cacheEntry.count
                  /\ DecidedAlone(k, i + 1,
                                  IF send THEN ResetEntry(cacheEntry, log[i].t) ELSE cacheEntry,
                                  log[i].gen)

\* C20: the send decisions and counts of a signature's events, and the entry
\* the cache holds for it, are those obtained from the signature's own events,
\* their times and the clears alone, however the events of other signatures
\* are interleaved with them.
C20_SignaturesAreIndependent ==
    \A k \in {log[i].sig : i \in Events} \cup DOMAIN dailyErrorCache :
        DecidedAlone(k, 1, [count |-> 0, lastSent |-> 0], -1)

\* A logged error, then a crash with the same message: the handler's record,
\* of another signature, is written twice and sends twice, the clock moving
\* between the two writes, and the listener's record is then decided against
\* the entry the logged error left
C20_Witness ==
    /\ Len(log) = 4 /\ Len(console) = 3
    /\ log[1].sig = log[4].sig
    /\ log[2].sig = log[3].sig /\ log[2].sig # log[1].sig
    /\ log[1].sent /\ log[2].sent /\ log[3].sent
    /\ log[1].t < log[2].t /\ log[2].t < log[3].t
    /\ log[4].before = [count |-> 0, lastSent |-> log[1].t]
    /\ dailyErrorCache[log[2].sig] = [count |-> 0, lastSent |-> log[3].t]
    /\ dailyErrorCache[log[1].sig].count = IF log[4].sent THEN 0 ELSE 1

====
